---- MODULE Spec2Model ----
(***************************************************************************)
(* A model of the DC diabetes cost comparison tool: the cost resolver      *)
(* (dc_access.py, DiabetesCostComparator.calculate_total_cost), the        *)
(* pairing builder (app.py, build_pairings) and the request handler        *)
(* (app.py, index) with its trial questionnaire, cash-price row, tier      *)
(* flags, unauthorized-cost overrides and sort stage.                      *)
(*                                                                         *)
(* Text is a sequence of one-character strings, so that strip(), lower()   *)
(* and string comparison are computed.  A number is a normalised fraction  *)
(* n/d, so that the division by 12 is computed; NaN and None are values    *)
(* of their own.                                                           *)
(***************************************************************************)
EXTENDS Integers, Sequences, FiniteSets, TLC

VARIABLES
    medicines_df,   \* rows of medicines.csv, in file order
    insurance_df,   \* rows of insurance.csv, in file order
    coverage_df,    \* rows of insurance_medicine_coverage.csv, in file order
    req,            \* the request being answered (method, form fields)
    resp,           \* what index() hands to the template, or a failure
    call,           \* a direct call of calculate_total_cost / build_pairings
    flow            \* the questionnaire as the browser threads it

vars == <<medicines_df, insurance_df, coverage_df, req, resp, call, flow>>

----------------------------------------------------------------------------
(* Values *)

\* Python None where text is expected.
NoneS == <<"None">>

\* Python None where a record (a dict) is expected.
NoneRec == [none |-> TRUE]

\* Python None, NaN, +inf and -inf where a number is expected.
NoneV == [t |-> "none", n |-> 0, d |-> 1]
NaN == [t |-> "nan", n |-> 0, d |-> 1]
PosInf == [t |-> "inf", n |-> 0, d |-> 1]
NegInf == [t |-> "ninf", n |-> 0, d |-> 1]

\* A cell holding text that is not a number.
StrV == [t |-> "str", n |-> 0, d |-> 1]

\* An exception leaving the function.
Raise == [t |-> "raise", n |-> 0, d |-> 1]

Abs(x) == IF x < 0 THEN -x ELSE x

RECURSIVE Gcd(_, _)
Gcd(a, b) == IF b = 0 THEN a ELSE Gcd(b, a % b)

\* The number n/d in lowest terms, d > 0.
Frac(n, d) ==
    LET g == Gcd(Abs(n), Abs(d))
        s == IF d < 0 THEN -1 ELSE 1
    IN [t |-> "num", n |-> (s * n) \div g, d |-> (s * d) \div g]

Num(k) == Frac(k, 1)

IsNum(v) == v.t = "num"

\* Float arithmetic: NaN in, NaN out.
FAdd(a, b) ==
    IF IsNum(a) /\ IsNum(b) THEN Frac(a.n * b.d + b.n * a.d, a.d * b.d) ELSE NaN

\* As FSub, but with the operands exchanged.
FSubSwapped(a, b) ==
    IF IsNum(a) /\ IsNum(b) THEN Frac(b.n * a.d - a.n * b.d, a.d * b.d) ELSE NaN

FSub(a, b) ==
    IF IsNum(a) /\ IsNum(b) THEN Frac(a.n * b.d - b.n * a.d, a.d * b.d) ELSE NaN

FMul(a, b) ==
    IF IsNum(a) /\ IsNum(b) THEN Frac(a.n * b.n, a.d * b.d) ELSE NaN

FDiv(a, k) ==
    IF IsNum(a) THEN Frac(a.n, a.d * k) ELSE NaN

\* a < b on floats with infinities; any comparison with NaN is false.
FLess(a, b) ==
    CASE a.t = "nan" \/ b.t = "nan" -> FALSE
      [] a.t = "ninf" -> b.t # "ninf"
      [] b.t = "inf" -> a.t # "inf"
      [] a.t = "inf" \/ b.t = "ninf" -> FALSE
      [] OTHER -> a.n * b.d < b.n * a.d

\* float(x): a number or NaN converts, None and non-numeric text raise.
FloatOk(v) == v.t \in {"num", "nan"}

\* pd.isna(x)
IsNa(v) == v.t \in {"nan", "none"}

----------------------------------------------------------------------------
(* Text *)

UpperAlpha ==
    <<"A", "B", "C", "D", "E", "F", "G", "H", "I", "J", "K", "L", "M",
      "N", "O", "P", "Q", "R", "S", "T", "U", "V", "W", "X", "Y", "Z">>

LowerAlpha ==
    <<"a", "b", "c", "d", "e", "f", "g", "h", "i", "j", "k", "l", "m",
      "n", "o", "p", "q", "r", "s", "t", "u", "v", "w", "x", "y", "z">>

Digits == <<"0", "1", "2", "3", "4", "5", "6", "7", "8", "9">>

\* The characters the model's texts use, in code point order.
CodeOrder == <<" ", "!", "(", ")", "-">> \o Digits \o UpperAlpha \o LowerAlpha

Ord(c) == CHOOSE i \in 1..Len(CodeOrder) : CodeOrder[i] = c

LowerChar(c) ==
    IF \E i \in 1..Len(UpperAlpha) : UpperAlpha[i] = c
    THEN LowerAlpha[CHOOSE i \in 1..Len(UpperAlpha) : UpperAlpha[i] = c]
    ELSE c

\* str.lower()
Lower(s) == [i \in 1..Len(s) |-> LowerChar(s[i])]

RECURSIVE LStrip(_)
LStrip(s) == IF s # <<>> /\ Head(s) = " " THEN LStrip(Tail(s)) ELSE s

RECURSIVE RStrip(_)
RStrip(s) ==
    IF s # <<>> /\ s[Len(s)] = " " THEN RStrip(SubSeq(s, 1, Len(s) - 1)) ELSE s

\* str.strip()
Strip(s) == RStrip(LStrip(s))

IsPrefix(p, s) == Len(p) <= Len(s) /\ SubSeq(s, 1, Len(p)) = p

\* str.replace(old, ""), old not empty.
RECURSIVE RemoveAll(_, _)
RemoveAll(s, old) ==
    IF s = <<>> THEN <<>>
    ELSE IF IsPrefix(old, s) THEN RemoveAll(SubSeq(s, Len(old) + 1, Len(s)), old)
    ELSE <<Head(s)>> \o RemoveAll(Tail(s), old)

\* s < t on str: code point order, a proper prefix first.
RECURSIVE StrLess(_, _)
StrLess(s, t) ==
    IF t = <<>> THEN FALSE
    ELSE IF s = <<>> THEN TRUE
    ELSE IF Head(s) = Head(t) THEN StrLess(Tail(s), Tail(t))
    ELSE Ord(Head(s)) < Ord(Head(t))

\* str(x) of a text cell; str(None) is "None".
PyStr(s) == IF s = NoneS THEN <<"N", "o", "n", "e">> ELSE s

\* Truth value of an optional text: None and "" are false.
Truthy(s) == s # NoneS /\ s # <<>>

\* x or None
OrNone(s) == IF Truthy(s) THEN s ELSE NoneS

----------------------------------------------------------------------------
(* DiabetesCostComparator.calculate_total_cost *)

\* The number of months every caller in app.py passes.
Months == 12

\* dict.get(key) on a record that may lack the column.
GetNum(info, key) == IF key \in DOMAIN info THEN info[key] ELSE NoneV

GetText(info, key) == IF key \in DOMAIN info THEN info[key] ELSE NoneS

\* As CoveredFlag, but comparing the cell with 'Yes' as it is written.
CoveredFlagExact(coverage_info) ==
    /\ coverage_info # NoneRec
    /\ GetText(coverage_info, "covered") = <<"Y", "e", "s">>

CoveredFlag(coverage_info) ==
    /\ coverage_info # NoneRec
    /\ Lower(Strip(PyStr(GetText(coverage_info, "covered")))) = <<"y", "e", "s">>

\* x * months where x is what .get('average_cost_per_month', 0) returned:
\* text times an int is text again.
TimesMonths(x, months) ==
    IF x.t = "str" THEN StrV ELSE FMul(x, Num(months))

\* As UncoveredCost, but taking the cash price whether or not an insurance
\* record is supplied.
UncoveredCostCashFirst(medicine_info, insurance_info, months) ==
    LET gr == GetNum(medicine_info, "goodrx_price")
        cash == /\ medicine_info # NoneRec
                /\ gr.t # "none" /\ ~IsNa(gr)
                /\ FloatOk(gr)
    IN IF cash THEN FMul(gr, Num(months))
       ELSE IF medicine_info = NoneRec THEN Raise
       ELSE IF "average_cost_per_month" \in DOMAIN medicine_info
            THEN TimesMonths(medicine_info["average_cost_per_month"], months)
            ELSE Num(0)

\* The not-covered branch.
UncoveredCost(medicine_info, insurance_info, months) ==
    LET gr == GetNum(medicine_info, "goodrx_price")
        cash == /\ insurance_info = NoneRec
                /\ medicine_info # NoneRec
                /\ gr.t # "none" /\ ~IsNa(gr)
                /\ FloatOk(gr)
    IN IF cash THEN FMul(gr, Num(months))
       ELSE IF medicine_info = NoneRec THEN Raise
       ELSE IF "average_cost_per_month" \in DOMAIN medicine_info
            THEN TimesMonths(medicine_info["average_cost_per_month"], months)
            ELSE Num(0)

\* The covered branch: deductible + copay * months.
CoveredCost(insurance_info, coverage_info, months) ==
    LET c == GetNum(coverage_info, "copay_amount")
        copay == IF FloatOk(c) THEN c ELSE Num(0)
        ded == IF insurance_info # NoneRec
               THEN GetNum(insurance_info, "deductible") ELSE NoneV
        deductible == IF ded.t = "none" THEN Num(0)
                      ELSE IF FloatOk(ded) THEN ded ELSE Num(0)
    IN FAdd(deductible, FMul(copay, Num(months)))

calculate_total_cost(medicine_info, insurance_info, coverage_info, months) ==
    IF ~CoveredFlag(coverage_info)
    THEN UncoveredCost(medicine_info, insurance_info, months)
    ELSE CoveredCost(insurance_info, coverage_info, months)

----------------------------------------------------------------------------
(* Names *)

Metformin == <<"M", "e", "t", "f", "o", "r", "m", "i", "n">>

Glipizide == <<"G", "l", "i", "p", "i", "z", "i", "d", "e">>

Invokana == <<"I", "n", "v", "o", "k", "a", "n", "a">>

Januvia == <<"J", "a", "n", "u", "v", "i", "a">>

Tirzepatide == <<"T", "i", "r", "z", "e", "p", "a", "t", "i", "d", "e">>

Semaglutide == <<"S", "e", "m", "a", "g", "l", "u", "t", "i", "d", "e">>

Jardiance == <<"J", "a", "r", "d", "i", "a", "n", "c", "e">>

Empagliflozin == <<"E", "m", "p", "a", "g", "l", "i", "f", "l", "o", "z", "i", "n">>

Cigna == <<"C", "i", "g", "n", "a">>

Aetna == <<"A", "e", "t", "n", "a">>

Medicare == <<"M", "e", "d", "i", "c", "a", "r", "e">>

\* The insurance name of the cash row.
GoodRxName == <<"G", "o", "o", "d", "R", "x", " ", "(", "C", "V", "S", " ", "-", " ", "D", "C", ")">>

\* The questionnaire's order.
TRIAL_SEQUENCE ==
    <<Metformin, Glipizide, Invokana, Januvia, Tirzepatide, Semaglutide, Jardiance>>

\* (insurance_name, medicine_name) -> annual price without prior authorization.
UNAUTHORIZED_COSTS ==
    (<<Cigna, Empagliflozin>> :> Num(811)) @@ (<<Cigna, Januvia>> :> Num(721))

----------------------------------------------------------------------------
(* The data store: DiabetesCostComparator's three tables and its lookups *)

\* df[mask].iloc[0].to_dict(), None when the mask selects no row; hits are
\* the positions the mask selects.
FirstRow(df, hits) ==
    IF hits # {}
    THEN df[CHOOSE k \in hits : \A j \in hits : k <= j]
    ELSE NoneRec

get_medicine_info(medicine_name) ==
    FirstRow(medicines_df,
             {k \in 1..Len(medicines_df) :
                 medicines_df[k].medicine_name = medicine_name})

get_insurance_info(insurance_name) ==
    FirstRow(insurance_df,
             {k \in 1..Len(insurance_df) :
                 insurance_df[k].insurance_name = insurance_name})

get_coverage_info(insurance_name, medicine_name) ==
    FirstRow(coverage_df,
             {k \in 1..Len(coverage_df) :
                 /\ coverage_df[k].insurance_name = insurance_name
                 /\ coverage_df[k].medicine_name = medicine_name})

\* df[col].tolist()
Column(df, col) == [k \in 1..Len(df) |-> df[k][col]]

----------------------------------------------------------------------------
(* build_pairings *)

\* What a function that raised hands back in place of a row.
Raised == [raised |-> TRUE]

\* float(med_info.get("average_cost_per_month", 0)), 0.0 on any exception.
FullMonthlyOf(med_info) ==
    IF med_info = NoneRec \/ "average_cost_per_month" \notin DOMAIN med_info
    THEN Num(0)
    ELSE IF FloatOk(med_info["average_cost_per_month"])
         THEN med_info["average_cost_per_month"]
         ELSE Num(0)

\* The explicit GoodRx price, None when absent, NaN or not a number.
GoodrxOf(med_info) ==
    LET gr == GetNum(med_info, "goodrx_price")
    IN IF med_info # NoneRec /\ gr.t # "none" /\ ~IsNa(gr) /\ FloatOk(gr)
       THEN gr ELSE NoneV

\* The copay of the coverage row, None when there is none.
CopayOf(cov_info) ==
    LET c == GetNum(cov_info, "copay_amount")
    IN IF cov_info # NoneRec /\ c.t # "none" /\ FloatOk(c) THEN c ELSE NoneV

\* As MonthlyOf, but without the division.
MonthlyOfUndivided(annual_cost) == annual_cost

\* monthly_cost = annual_cost / 12
MonthlyOf(annual_cost) == FDiv(annual_cost, 12)

\* The row add_pair appends, from what it looked up and computed; Raised when
\* calculate_total_cost raised or the division failed on text.
PairRow(med_name, ins_name, selected_insurance, med_info, ins_info, cov_info, annual_cost, goodrx_price, copay_amount) ==
    LET full_monthly == IF ~Truthy(selected_insurance) /\ goodrx_price # NoneV
                        THEN goodrx_price
                        ELSE FullMonthlyOf(med_info)
        full_annual == FMul(full_monthly, Num(12))
    IN IF annual_cost.t \in {"raise", "str"}
       THEN Raised
       ELSE [medicine_name |-> med_name,
             insurance_name |-> ins_name,
             medicine |-> med_info,
             insurance |-> ins_info,
             coverage |-> cov_info,
             annual_cost |-> annual_cost,
             monthly_cost |-> MonthlyOf(annual_cost),
             full_monthly |-> full_monthly,
             full_annual |-> full_annual,
             goodrx_price |-> goodrx_price,
             goodrx_eligible |-> (goodrx_price # NoneV),
             unauth_annual |-> NoneV,
             copay_amount |-> copay_amount,
             monthly_savings |-> IF copay_amount # NoneV
                                 THEN FSub(full_monthly, copay_amount)
                                 ELSE NoneV,
             annual_savings |-> FSub(full_annual, annual_cost)]

\* add_pair once the three lookups are made.
PairOf(med_name, ins_name, selected_insurance, med_info, ins_info, cov_info) ==
    PairRow(med_name, ins_name, selected_insurance, med_info, ins_info, cov_info,
            calculate_total_cost(med_info, ins_info, cov_info, Months),
            GoodrxOf(med_info), CopayOf(cov_info))

add_pair(med_name, ins_name, selected_insurance) ==
    PairOf(med_name, ins_name, selected_insurance,
           get_medicine_info(med_name),
           get_insurance_info(ins_name),
           get_coverage_info(ins_name, med_name))

\* As CrossNames, but insurance-major.
CrossNamesInsuranceMajor(meds, inss) ==
    [k \in 1..(Len(meds) * Len(inss)) |->
        <<meds[((k - 1) % Len(meds)) + 1], inss[((k - 1) \div Len(meds)) + 1]>>]

\* One medicine-major walk over two lists of names.
CrossNames(meds, inss) ==
    [k \in 1..(Len(meds) * Len(inss)) |->
        <<meds[((k - 1) \div Len(inss)) + 1], inss[((k - 1) % Len(inss)) + 1]>>]

\* The (medicine, insurance) names build_pairings walks through, in its order.
PairNames(selected_medicine, selected_insurance) ==
    CrossNames(IF Truthy(selected_medicine) THEN <<selected_medicine>>
               ELSE Column(medicines_df, "medicine_name"),
               IF Truthy(selected_insurance) THEN <<selected_insurance>>
               ELSE Column(insurance_df, "insurance_name"))

AddPairs(names, selected_insurance) ==
    [k \in 1..Len(names) |-> add_pair(names[k][1], names[k][2], selected_insurance)]

\* ok is false when an add_pair raised: the exception leaves build_pairings.
PairingsOrRaise(rows) ==
    IF \E k \in 1..Len(rows) : rows[k] = Raised
    THEN [ok |-> FALSE, rows |-> <<>>]
    ELSE [ok |-> TRUE, rows |-> rows]

build_pairings(selected_medicine, selected_insurance) ==
    PairingsOrRaise(AddPairs(PairNames(selected_medicine, selected_insurance),
                             selected_insurance))

----------------------------------------------------------------------------
(* The words index() and tier_num() compare with *)

T_trial == <<"t", "r", "i", "a", "l">>

T_no == <<"n", "o">>

T_on == <<"o", "n">>

T_desc == <<"d", "e", "s", "c">>

T_asc == <<"a", "s", "c">>

T_tier == <<"t", "i", "e", "r">>

T_medicine == <<"m", "e", "d", "i", "c", "i", "n", "e">>

T_insurance == <<"i", "n", "s", "u", "r", "a", "n", "c", "e">>

T_monthly == <<"m", "o", "n", "t", "h", "l", "y">>

T_savings == <<"s", "a", "v", "i", "n", "g", "s">>

T_annual == <<"a", "n", "n", "u", "a", "l">>

\* Cell and form texts.
YesText == <<"Y", "e", "s">>

YesPaddedText == <<" ", "Y", "E", "S", " ">>

NoText == <<"N", "o">>

NoPaddedText == <<" ", "n", "o", " ">>

\* str() of a blank cell.
NanText == <<"n", "a", "n">>

Tier1Text == <<"T", "i", "e", "r", " ", "1">>

Tier2Text == <<"T", "i", "e", "r", " ", "2">>

PreferredText == <<"P", "r", "e", "f", "e", "r", "r", "e", "d">>

----------------------------------------------------------------------------
(* Parsing and indexing *)

DigitVal(c) == (CHOOSE i \in 1..Len(Digits) : Digits[i] = c) - 1

IsDigit(c) == \E i \in 1..Len(Digits) : Digits[i] = c

RECURSIVE DigitsValue(_)
DigitsValue(s) ==
    IF s = <<>> THEN 0
    ELSE 10 * DigitsValue(SubSeq(s, 1, Len(s) - 1)) + DigitVal(s[Len(s)])

\* int() of the digits after the sign; ok is false where int() raises
\* ValueError.
SignedValue(neg, body) ==
    IF body # <<>> /\ \A i \in 1..Len(body) : IsDigit(body[i])
    THEN [ok |-> TRUE, val |-> IF neg THEN -DigitsValue(body) ELSE DigitsValue(body)]
    ELSE [ok |-> FALSE, val |-> 0]

ParseStripped(s) ==
    IF s # <<>> /\ Head(s) = "-" THEN SignedValue(TRUE, Tail(s)) ELSE SignedValue(FALSE, s)

\* int(text): blanks around, an optional minus sign, then digits.
ParseInt(text) == ParseStripped(Strip(text))

RECURSIVE NatText(_)
NatText(k) ==
    IF k < 10 THEN <<Digits[k + 1]>> ELSE NatText(k \div 10) \o <<Digits[(k % 10) + 1]>>

\* The text of an int as the template writes it into the hidden field.
IntText(i) == IF i < 0 THEN <<"-">> \o NatText(-i) ELSE NatText(i)

\* seq[i] as Python indexes a list: from 0, negative i from the end; ok is
\* false where it raises IndexError.
PyIndex(seq, i) ==
    LET n == Len(seq)
        ok == -n <= i /\ i < n
    IN [ok |-> ok,
        val |-> IF ~ok THEN NoneS
                ELSE IF i >= 0 THEN seq[i + 1] ELSE seq[n + i + 1]]

\* tier_num: the number in 'Tier 2', None (ok false) when there is none.
tier_num(tier_str) ==
    IF ~Truthy(tier_str)
    THEN [ok |-> FALSE, val |-> 0]
    ELSE ParseInt(Strip(RemoveAll(Lower(Strip(tier_str)), T_tier)))

----------------------------------------------------------------------------
(* index(): enrichment and sort *)

\* d[k] = v on a dict.
DictSet(p, k, v) == [x \in (DOMAIN p) \cup {k} |-> IF x = k THEN v ELSE p[x]]

\* As WithUnauth, but without looking the pair up in the table.
WithUnauthDefault(p) == DictSet(p, "unauth_annual", GetNum(p, "full_annual"))

\* p['unauth_annual']: the configured price, else the row's full_annual.
WithUnauth(p) ==
    LET key == <<p.insurance_name, p.medicine_name>>
    IN DictSet(p, "unauth_annual",
               IF key \in DOMAIN UNAUTHORIZED_COSTS
               THEN UNAUTHORIZED_COSTS[key]
               ELSE GetNum(p, "full_annual"))

\* The tier number of a coverage row, None (ok false) without a row.
TierOf(cov) == tier_num(IF cov # NoneRec THEN GetText(cov, "tier_level") ELSE NoneS)

\* As HigherTier, but an equal tier counts as higher.
HigherTierOrEqual(p_t, sel_t) == p_t.ok /\ sel_t.ok /\ p_t.val >= sel_t.val

HigherTier(p_t, sel_t) == p_t.ok /\ sel_t.ok /\ p_t.val > sel_t.val

\* As WithTierFlag, but against the selected medicine under one fixed
\* insurance, Cigna, instead of the row's.
WithTierFlagFixed(p, selected_medicine) ==
    DictSet(p, "is_higher_tier",
            HigherTier(TierOf(p.coverage),
                       TierOf(get_coverage_info(Cigna, selected_medicine))))

\* p["is_higher_tier"] against the selected medicine under the row's insurance.
WithTierFlag(p, selected_medicine) ==
    DictSet(p, "is_higher_tier",
            HigherTier(TierOf(p.coverage),
                       TierOf(get_coverage_info(p.insurance_name, selected_medicine))))

\* As KeyLess, but a missing annual_savings counts as +infinity.
KeyLessSavingsLast(p, q, sort_by) ==
    LET NumKey(x, k, missing) == IF GetNum(x, k) # NoneV THEN x[k] ELSE missing
    IN IF sort_by = T_medicine
       THEN StrLess(Lower(p.medicine_name), Lower(q.medicine_name))
       ELSE IF sort_by = T_insurance
       THEN StrLess(Lower(p.insurance_name), Lower(q.insurance_name))
       ELSE IF sort_by = T_monthly
       THEN FLess(NumKey(p, "monthly_cost", PosInf), NumKey(q, "monthly_cost", PosInf))
       ELSE IF sort_by = T_savings
       THEN FLess(NumKey(p, "annual_savings", PosInf),
                  NumKey(q, "annual_savings", PosInf))
       ELSE FLess(NumKey(p, "annual_cost", PosInf), NumKey(q, "annual_cost", PosInf))

\* _key(p) < _key(q)
KeyLess(p, q, sort_by) ==
    LET NumKey(x, k, missing) == IF GetNum(x, k) # NoneV THEN x[k] ELSE missing
    IN IF sort_by = T_medicine
       THEN StrLess(Lower(p.medicine_name), Lower(q.medicine_name))
       ELSE IF sort_by = T_insurance
       THEN StrLess(Lower(p.insurance_name), Lower(q.insurance_name))
       ELSE IF sort_by = T_monthly
       THEN FLess(NumKey(p, "monthly_cost", PosInf), NumKey(q, "monthly_cost", PosInf))
       ELSE IF sort_by = T_savings
       THEN FLess(NumKey(p, "annual_savings", NegInf),
                  NumKey(q, "annual_savings", NegInf))
       ELSE FLess(NumKey(p, "annual_cost", PosInf), NumKey(q, "annual_cost", PosInf))

\* As Before, but descending taken as "not ascending": equal keys change
\* places.
BeforeNotAscending(x, e, sort_by, reverse) ==
    IF reverse THEN ~KeyLess(x, e, sort_by) ELSE KeyLess(x, e, sort_by)

\* x comes before e in the sorted list.
Before(x, e, sort_by, reverse) ==
    IF reverse THEN KeyLess(e, x, sort_by) ELSE KeyLess(x, e, sort_by)

InsertAt(sorted, x, at) ==
    SubSeq(sorted, 1, at - 1) \o <<x>> \o SubSeq(sorted, at, Len(sorted))

\* x goes before the first row it must come before, after all the others:
\* equal keys keep their order, in both directions.
InsertRow(sorted, x, sort_by, reverse) ==
    InsertAt(sorted, x,
             IF \E j \in 1..Len(sorted) : Before(x, sorted[j], sort_by, reverse)
             THEN CHOOSE j \in 1..Len(sorted) :
                     /\ Before(x, sorted[j], sort_by, reverse)
                     /\ \A i \in 1..(j - 1) : ~Before(x, sorted[i], sort_by, reverse)
             ELSE Len(sorted) + 1)

\* pairings.sort(key=_key, reverse=reverse)
RECURSIVE SortRows(_, _, _)
SortRows(rows, sort_by, reverse) ==
    IF rows = <<>> THEN <<>>
    ELSE InsertRow(SortRows(SubSeq(rows, 1, Len(rows) - 1), sort_by, reverse),
                   rows[Len(rows)], sort_by, reverse)

\* The GoodRx row is offered when the price is truthy, not NaN and a number.
CashOffered(med_info) ==
    LET gr == GetNum(med_info, "goodrx_price")
    IN med_info # NoneRec /\ gr.t = "num" /\ gr.n # 0

CashRowOf(selected_medicine, med_info, gr_annual) ==
    [medicine_name |-> selected_medicine,
     insurance_name |-> GoodRxName,
     medicine |-> med_info,
     insurance |-> NoneRec,
     coverage |-> NoneRec,
     annual_cost |-> gr_annual,
     monthly_cost |-> MonthlyOf(gr_annual),
     full_monthly |-> med_info.goodrx_price,
     full_annual |-> FMul(med_info.goodrx_price, Num(12)),
     copay_amount |-> NoneV,
     monthly_savings |-> NoneV,
     annual_savings |-> NoneV,
     is_cash |-> TRUE]

CashRow(selected_medicine, med_info) ==
    CashRowOf(selected_medicine, med_info,
              calculate_total_cost(med_info, NoneRec, NoneRec, Months))

MapRows(rows, F(_)) == [k \in 1..Len(rows) |-> F(rows[k])]

FilterRows(rows, Keep(_)) == SelectSeq(rows, Keep)

----------------------------------------------------------------------------
(* index(): the request handler *)

\* What the template gets when nothing was posted.
EmptyResp ==
    [status |-> "ok",
     selected_medicine |-> NoneS,
     selected_insurance |-> NoneS,
     current |-> NoneRec,
     pairings |-> <<>>,
     trial_question |-> NoneS,
     trial_index |-> 0]

\* An exception left index(): the request fails, nothing is rendered.
ErrorResp == [EmptyResp EXCEPT !.status = "error"]

\* As ReadIndex, but taking the index from what the server kept of the last
\* step instead of the request.
ReadIndexKept(text) == flow.index

\* As ReadIndex, but never reading the field: every step starts from 0.
ReadIndexZero(text) == 0

\* int(request.form.get("trial_index") or 0), 0 on any exception.
ReadIndex(text) ==
    IF Truthy(text) /\ ParseInt(text).ok THEN ParseInt(text).val ELSE 0

\* As StepNo, but selecting the medicine after the one asked about.
StepNoNext(read, at) ==
    [trial_index |-> read,
     selected_medicine |-> IF read < Len(TRIAL_SEQUENCE) /\ at.ok
                           THEN PyIndex(TRIAL_SEQUENCE, (read + 1) % Len(TRIAL_SEQUENCE)).val
                           ELSE NoneS,
     trial_question |-> NoneS,
     skip_build_results |-> FALSE,
     show_all_after_trial |-> FALSE,
     raised |-> read < Len(TRIAL_SEQUENCE) /\ ~at.ok]

\* "No" at the index read: the medicine asked about, if there is one.
StepNo(read, at) ==
    [trial_index |-> read,
     selected_medicine |-> IF read < Len(TRIAL_SEQUENCE) /\ at.ok THEN at.val ELSE NoneS,
     trial_question |-> NoneS,
     skip_build_results |-> FALSE,
     show_all_after_trial |-> FALSE,
     raised |-> read < Len(TRIAL_SEQUENCE) /\ ~at.ok]

\* As StepYes, but without setting skip_build_results.
StepYesBuilds(next, at) ==
    [trial_index |-> next,
     selected_medicine |-> NoneS,
     trial_question |-> IF next < Len(TRIAL_SEQUENCE) /\ at.ok THEN at.val ELSE NoneS,
     skip_build_results |-> FALSE,
     show_all_after_trial |-> ~(next < Len(TRIAL_SEQUENCE)),
     raised |-> next < Len(TRIAL_SEQUENCE) /\ ~at.ok]

\* Any other answer: on to the next question, or past the last one.
StepYes(next, at) ==
    [trial_index |-> next,
     selected_medicine |-> NoneS,
     trial_question |-> IF next < Len(TRIAL_SEQUENCE) /\ at.ok THEN at.val ELSE NoneS,
     skip_build_results |-> next < Len(TRIAL_SEQUENCE),
     show_all_after_trial |-> ~(next < Len(TRIAL_SEQUENCE)),
     raised |-> next < Len(TRIAL_SEQUENCE) /\ ~at.ok]

\* No answer in the form, or a request that is not the trial form.
StepNone(read) ==
    [trial_index |-> read,
     selected_medicine |-> NoneS,
     trial_question |-> NoneS,
     skip_build_results |-> FALSE,
     show_all_after_trial |-> FALSE,
     raised |-> FALSE]

StepAt(trial_answer, read) ==
    IF trial_answer = NoneS THEN StepNone(read)
    ELSE IF Lower(Strip(PyStr(trial_answer))) = T_no
    THEN StepNo(read, PyIndex(TRIAL_SEQUENCE, read))
    ELSE StepYes(read + 1, PyIndex(TRIAL_SEQUENCE, read + 1))

\* The questionnaire step of a request.
TrialStep(r) ==
    IF r.trial_action = T_trial
    THEN StepAt(r.trial_answer, ReadIndex(r.trial_index))
    ELSE StepNone(0)

\* The top card of case 1.
CurrentOf(med_info, ins_info, cov_info, annual_cost) ==
    [medicine |-> med_info,
     insurance |-> ins_info,
     coverage |-> cov_info,
     annual_cost |-> annual_cost,
     monthly_cost |-> MonthlyOf(annual_cost)]

CurrentOrNone(med_info, ins_info, cov_info) ==
    IF med_info # NoneRec /\ ins_info # NoneRec
    THEN CurrentOf(med_info, ins_info, cov_info,
                   calculate_total_cost(med_info, ins_info, cov_info, Months))
    ELSE NoneRec

\* As OtherRows, but keeping the row of the exact selection.
OtherRowsAll(rows, selected_medicine, selected_insurance, tried_flag) ==
    LET Enrich(p) == IF tried_flag
                     THEN WithTierFlag(WithUnauth(p), selected_medicine)
                     ELSE WithUnauth(p)
    IN MapRows(rows, Enrich)

\* The rows of case 1: all but the exact selection, with the unauthorized
\* prices, and the tier flags when 'tried' is on.
OtherRows(rows, selected_medicine, selected_insurance, tried_flag) ==
    LET Other(p) == ~(p.medicine_name = selected_medicine
                      /\ p.insurance_name = selected_insurance)
        Enrich(p) == IF tried_flag
                     THEN WithTierFlag(WithUnauth(p), selected_medicine)
                     ELSE WithUnauth(p)
    IN MapRows(FilterRows(rows, Other), Enrich)

Built(raised, current, pairings) ==
    [raised |-> raised, current |-> current, pairings |-> pairings]

BothBuilt(current, all_for_med, selected_medicine, selected_insurance, tried_flag, sort_by, reverse) ==
    Built(\/ (current # NoneRec /\ current.annual_cost.t \in {"raise", "str"})
          \/ ~all_for_med.ok,
          current,
          SortRows(OtherRows(all_for_med.rows, selected_medicine,
                             selected_insurance, tried_flag),
                   sort_by, reverse))

\* Case 1: both selected. The exact combination on top, the medicine's other
\* insurance options below.
BothSelected(selected_medicine, selected_insurance, tried_flag, sort_by, reverse) ==
    BothBuilt(CurrentOrNone(get_medicine_info(selected_medicine),
                            get_insurance_info(selected_insurance),
                            get_coverage_info(selected_insurance, selected_medicine)),
              build_pairings(selected_medicine, NoneS),
              selected_medicine, selected_insurance, tried_flag, sort_by, reverse)

\* The rows of case 2: the cash row first when it is offered, the tier flags
\* when 'tried' is on and a medicine selected, the unauthorized prices.
BroadRows(rows, selected_medicine, selected_insurance, tried_flag) ==
    LET Enrich(p) == IF tried_flag /\ Truthy(selected_medicine)
                     THEN WithUnauth(WithTierFlag(p, selected_medicine))
                     ELSE WithUnauth(p)
    IN MapRows(IF /\ Truthy(selected_medicine)
                  /\ ~Truthy(selected_insurance)
                  /\ CashOffered(get_medicine_info(selected_medicine))
               THEN <<CashRow(selected_medicine, get_medicine_info(selected_medicine))>>
                    \o rows
               ELSE rows,
               Enrich)

BroadBuilt(all_pairs, selected_medicine, selected_insurance, tried_flag, sort_by, reverse) ==
    Built(~all_pairs.ok,
          NoneRec,
          SortRows(BroadRows(all_pairs.rows, selected_medicine,
                             selected_insurance, tried_flag),
                   sort_by, reverse))

\* Case 2: the broad query.
BroadQuery(selected_medicine, selected_insurance, show_all, tried_flag, sort_by, reverse) ==
    BroadBuilt(IF show_all
               THEN build_pairings(NoneS, NoneS)
               ELSE build_pairings(selected_medicine, selected_insurance),
               selected_medicine, selected_insurance, tried_flag, sort_by, reverse)

\* The result part of a POST, once the selection is known.
BuildResults(step, selected_medicine, selected_insurance, tried_flag, sort_by, reverse) ==
    IF step.skip_build_results /\ ~step.show_all_after_trial
    THEN Built(FALSE, NoneRec, <<>>)
    ELSE IF Truthy(selected_medicine) /\ Truthy(selected_insurance)
    THEN BothSelected(selected_medicine, selected_insurance, tried_flag, sort_by, reverse)
    ELSE BroadQuery(selected_medicine, selected_insurance,
                    step.show_all_after_trial, tried_flag, sort_by, reverse)

\* What render_template receives, or the failure.
Rendered(step, selected_medicine, selected_insurance, built) ==
    IF step.raised \/ built.raised
    THEN ErrorResp
    ELSE [status |-> "ok",
          selected_medicine |-> selected_medicine,
          selected_insurance |-> selected_insurance,
          current |-> built.current,
          pairings |-> built.pairings,
          trial_question |-> step.trial_question,
          trial_index |-> step.trial_index]

\* The POST once the questionnaire step is made and the fields are read.
Posted(step, selected_medicine, selected_insurance, tried_flag, sort_by, sort_order) ==
    Rendered(step, selected_medicine, selected_insurance,
             BuildResults(step, selected_medicine, selected_insurance,
                          tried_flag, sort_by, sort_order = T_desc))

\* The POST once the questionnaire step is made.
PostedStep(r, step) ==
    Posted(step,
           OrNone(IF Truthy(step.selected_medicine)
                  THEN step.selected_medicine ELSE r.medicine),
           OrNone(r.insurance),
           r.tried = T_on,
           IF Truthy(r.sort_by) THEN r.sort_by ELSE T_annual,
           IF Truthy(r.order) THEN r.order ELSE T_asc)

\* index() on request r.
Index(r) ==
    IF r.method # "POST" THEN EmptyResp ELSE PostedStep(r, TrialStep(r))

----------------------------------------------------------------------------
(* The tables the model is checked on *)

MedRow(name, avg, gr) ==
    [medicine_name |-> name, average_cost_per_month |-> avg, goodrx_price |-> gr]

InsRow(name, ded) ==
    [insurance_name |-> name,
     deductible |-> ded,
     coverage_percentage |-> Num(80),
     copay_primary_care |-> Num(20)]

CovRow(ins, med, v) ==
    [insurance_name |-> ins,
     medicine_name |-> med,
     covered |-> v.covered,
     copay_amount |-> v.copay_amount,
     tier_level |-> v.tier_level]

\* goodrx_price cells: blank, zero, a price.
GoodrxValues == {NaN, Num(0), Num(25)}

\* medicines.csv: two medicines, not in alphabetical order.
MedTables ==
    {<<MedRow(Metformin, Num(4), g1), MedRow(Januvia, Num(30), g2)>> :
        g1 \in GoodrxValues, g2 \in {Num(25)}}

\* insurance.csv: two plans, not in alphabetical order.
InsTables == {<<InsRow(Cigna, Num(100)), InsRow(Aetna, Num(0))>>}

\* The (insurance, medicine) pairs a coverage row may be about.
CovKeys ==
    <<<<Cigna, Metformin>>, <<Cigna, Januvia>>, <<Aetna, Januvia>>>>

\* What a coverage row may say.
CovVariants ==
    <<[covered |-> YesText, copay_amount |-> Num(10), tier_level |-> Tier1Text],
      [covered |-> YesPaddedText, copay_amount |-> Num(45), tier_level |-> Tier2Text],
      [covered |-> NoText, copay_amount |-> NaN, tier_level |-> PreferredText]>>

\* The number of rows of the coverage table.
MaxCovRows == 2

\* Row c of the candidates: key by key, each in every variant.
CovCandidate(c) ==
    LET nV == Len(CovVariants)
        key == CovKeys[((c - 1) \div nV) + 1]
    IN CovRow(key[1], key[2], CovVariants[((c - 1) % nV) + 1])

Min(S) == CHOOSE x \in S : \A y \in S : x <= y

RECURSIVE RowsOf(_)
RowsOf(S) ==
    IF S = {} THEN <<>> ELSE <<CovCandidate(Min(S))>> \o RowsOf(S \ {Min(S)})

\* insurance_medicine_coverage.csv: at most MaxCovRows rows, one per pair.
CovTables ==
    LET nC == Len(CovKeys) * Len(CovVariants)
        KeyOf(c) == (c - 1) \div Len(CovVariants)
    IN {RowsOf(S) : S \in {T \in SUBSET (1..nC) :
                              /\ Cardinality(T) <= MaxCovRows
                              /\ \A a, b \in T : KeyOf(a) = KeyOf(b) => a = b}}

StoreInit ==
    /\ medicines_df \in MedTables
    /\ insurance_df \in InsTables
    /\ coverage_df \in CovTables

StoreUnchanged == UNCHANGED <<medicines_df, insurance_df, coverage_df>>

----------------------------------------------------------------------------
(* Requests *)

NoReq ==
    [method |-> "none",
     trial_action |-> NoneS,
     trial_answer |-> NoneS,
     trial_index |-> NoneS,
     medicine |-> NoneS,
     insurance |-> NoneS,
     tried |-> NoneS,
     sort_by |-> NoneS,
     order |-> NoneS]

NoCall == [fn |-> "none"]

NoFlow == [index |-> 0, prev |-> 0, answers |-> 0, ended |-> FALSE]

\* The sort fields a form may carry.
SortKeys == {NoneS, T_medicine, T_insurance, T_monthly, T_savings}

SortOrders == {NoneS, T_desc}

\* The medicine and insurance fields of the compare form; Glipizide and
\* Medicare are names the tables do not have.
FormMedicines == {NoneS, Metformin, Januvia, Glipizide}

FormInsurances == {NoneS, Cigna, Aetna, Medicare}

\* The fields the trial form may carry along.
TrialMedicines == {NoneS, Januvia}

TrialInsurances == {NoneS, Cigna}

TrialAnswers == {NoneS, YesText, NoText, NoPaddedText}

\* The largest trial_index a request carries.
MaxTrialIndex == 8

\* The hidden trial_index field: absent, not a number, a negative number, or
\* a number up to MaxTrialIndex.
TrialIndexTexts ==
    {NoneS, <<"x">>} \cup {IntText(i) : i \in {-8, -1} \cup 0..MaxTrialIndex}

----------------------------------------------------------------------------
(* The handler's specification: any request, one after the other *)

Init ==
    /\ StoreInit
    /\ req = NoReq
    /\ resp = EmptyResp
    /\ call = NoCall
    /\ flow = NoFlow

\* index() answers request r: its locals start afresh with every request.
Serve(r) ==
    /\ req = NoReq
    /\ req' = r
    /\ resp' = Index(r)
    /\ StoreUnchanged
    /\ UNCHANGED <<call, flow>>

\* GET /
Get ==
    \E sb \in SortKeys, so \in SortOrders :
        Serve([NoReq EXCEPT !.method = "GET", !.sort_by = sb, !.order = so])

\* POST / from the compare form.
PostForm ==
    \E m \in FormMedicines, i \in FormInsurances, t \in {NoneS, T_on},
       sb \in SortKeys, so \in SortOrders :
        Serve([NoReq EXCEPT !.method = "POST", !.medicine = m, !.insurance = i,
                            !.tried = t, !.sort_by = sb, !.order = so])

\* POST / from the trial form.
PostTrial ==
    \E a \in TrialAnswers, x \in TrialIndexTexts, m \in TrialMedicines,
       i \in TrialInsurances, t \in {NoneS, T_on} :
        Serve([NoReq EXCEPT !.method = "POST", !.trial_action = T_trial,
                            !.trial_answer = a, !.trial_index = x,
                            !.medicine = m, !.insurance = i, !.tried = t])

\* The response is sent and the request's locals are gone.
Return ==
    /\ req # NoReq
    /\ req' = NoReq
    /\ resp' = EmptyResp
    /\ StoreUnchanged
    /\ UNCHANGED <<call, flow>>

Next == Get \/ PostForm \/ PostTrial \/ Return

Spec == Init /\ [][Next]_vars

----------------------------------------------------------------------------
(* calculate_total_cost called on its own *)

\* A medicine dict; a column whose value is None here is a column the dict
\* does not have.
MedInfo(avg, gr) ==
    LET base == [medicine_name |-> Metformin]
        a == IF avg = NoneV THEN base
             ELSE DictSet(base, "average_cost_per_month", avg)
    IN IF gr = NoneV THEN a ELSE DictSet(a, "goodrx_price", gr)

InsInfo(ded) ==
    LET base == [insurance_name |-> Cigna,
                 coverage_percentage |-> Num(80),
                 copay_primary_care |-> Num(20)]
    IN IF ded = NoneV THEN base ELSE DictSet(base, "deductible", ded)

CovInfo(covered, copay) ==
    LET base == [insurance_name |-> Cigna, medicine_name |-> Metformin]
        c == IF covered = NoneS THEN base ELSE DictSet(base, "covered", covered)
    IN IF copay = NoneV THEN c ELSE DictSet(c, "copay_amount", copay)

CostMedInfos ==
    {NoneRec} \cup {MedInfo(avg, gr) : avg \in {NoneV, NaN, StrV, Num(40)},
                                       gr \in {NoneV, NaN, StrV, Num(0), Num(25)}}

CostInsInfos ==
    {NoneRec} \cup {InsInfo(ded) : ded \in {NoneV, NaN, StrV, Num(0), Num(100)}}

CostCovInfos ==
    {NoneRec} \cup {CovInfo(covered, copay) :
                        covered \in {NoneS, YesText, YesPaddedText, NoText, NanText},
                        copay \in {NoneV, NaN, StrV, Num(10)}}

\* The durations a caller asks for.
CostMonths == {1, Months}

InitCost ==
    /\ medicines_df = <<>>
    /\ insurance_df = <<>>
    /\ coverage_df = <<>>
    /\ req = NoReq
    /\ resp = EmptyResp
    /\ flow = NoFlow
    /\ call \in {[fn |-> "calculate_total_cost",
                  medicine_info |-> m,
                  insurance_info |-> i,
                  coverage_info |-> c,
                  months |-> k,
                  done |-> FALSE,
                  covered_flag |-> FALSE,
                  result |-> NoneV] :
                     m \in CostMedInfos, i \in CostInsInfos,
                     c \in CostCovInfos, k \in CostMonths}

\* The call runs: covered_flag is the function's local, result what it returns.
ApplyCost ==
    /\ call.fn = "calculate_total_cost"
    /\ ~call.done
    /\ call' = [call EXCEPT
                  !.done = TRUE,
                  !.covered_flag = CoveredFlag(call.coverage_info),
                  !.result = calculate_total_cost(call.medicine_info,
                                                  call.insurance_info,
                                                  call.coverage_info,
                                                  call.months)]
    /\ StoreUnchanged
    /\ UNCHANGED <<req, resp, flow>>

NextCost == ApplyCost

SpecCost == InitCost /\ [][NextCost]_vars

----------------------------------------------------------------------------
(* build_pairings called on its own *)

\* The selections a caller passes: absent, empty, in the tables, unknown.
PairMedicines == {NoneS, <<>>, Metformin, Januvia, Glipizide}

PairInsurances == {NoneS, <<>>, Cigna, Aetna, Medicare}

InitPairs ==
    /\ StoreInit
    /\ req = NoReq
    /\ resp = EmptyResp
    /\ flow = NoFlow
    /\ call \in {[fn |-> "build_pairings",
                  selected_medicine |-> m,
                  selected_insurance |-> i,
                  done |-> FALSE,
                  result |-> [ok |-> TRUE, rows |-> <<>>]] :
                     m \in PairMedicines, i \in PairInsurances}

ApplyPairs ==
    /\ call.fn = "build_pairings"
    /\ ~call.done
    /\ call' = [call EXCEPT
                  !.done = TRUE,
                  !.result = build_pairings(call.selected_medicine,
                                            call.selected_insurance)]
    /\ StoreUnchanged
    /\ UNCHANGED <<req, resp, flow>>

NextPairs == ApplyPairs

SpecPairs == InitPairs /\ [][NextPairs]_vars

----------------------------------------------------------------------------
(* The questionnaire threaded through the hidden field *)

\* The answers of one questionnaire run.
MaxAnswers == 8

\* The flow is over after a "No", and when every medicine was asked about.
FlowEnded(answer, index) ==
    \/ Lower(Strip(answer)) = T_no
    \/ index = Len(TRIAL_SEQUENCE)

\* The browser posts the trial form with the index the last page carried.
FlowAnswer ==
    \E a \in {YesText, NoText} :
        /\ req = NoReq
        /\ ~flow.ended
        /\ flow.answers < MaxAnswers
        /\ req' = [NoReq EXCEPT !.method = "POST", !.trial_action = T_trial,
                                !.trial_answer = a,
                                !.trial_index = IntText(flow.index)]
        /\ resp' = Index(req')
        /\ flow' = [index |-> IF resp'.status = "ok"
                              THEN resp'.trial_index ELSE flow.index,
                    prev |-> flow.index,
                    answers |-> flow.answers + 1,
                    ended |-> FlowEnded(a, resp'.trial_index)]
        /\ StoreUnchanged
        /\ UNCHANGED call

NextFlow == FlowAnswer \/ Return

SpecFlow == Init /\ [][NextFlow]_vars

----------------------------------------------------------------------------
(* The cost resolver's claims, on calculate_total_cost called on its own *)

CostDone == call.fn = "calculate_total_cost" /\ call.done

\* The coverage rules whose covered cell reads "yes" once trimmed and
\* lower-cased, among the cells the calls are made with.
SaysYes(cov) ==
    /\ cov # NoneRec
    /\ "covered" \in DOMAIN cov
    /\ cov.covered \in {YesText, YesPaddedText}

HasNumber(info, key) == info # NoneRec /\ key \in DOMAIN info /\ info[key].t = "num"

\* C1: the covered flag is true iff a coverage rule is supplied whose covered
\* cell, trimmed and lower-cased, is "yes"; and then the cost is
\* copay_amount * months + deductible, the deductible being 0 without an
\* insurance record: nothing else enters it.
C1_CoveredCost ==
    CostDone =>
        /\ call.covered_flag <=> SaysYes(call.coverage_info)
        /\ (/\ call.covered_flag
            /\ HasNumber(call.coverage_info, "copay_amount")
            /\ (call.insurance_info = NoneRec
                   \/ HasNumber(call.insurance_info, "deductible")))
           => call.result =
                 Num(call.coverage_info.copay_amount.n * call.months
                     + (IF call.insurance_info = NoneRec THEN 0
                        ELSE call.insurance_info.deductible.n))

\* A covered call with padded upper-case " YES ", copay 10, deductible 100, a
\* medicine with both prices: 10 * 12 + 100.
C1_Witness ==
    /\ CostDone
    /\ call.covered_flag
    /\ call.coverage_info = CovInfo(YesPaddedText, Num(10))
    /\ call.insurance_info = InsInfo(Num(100))
    /\ call.medicine_info = MedInfo(Num(40), Num(25))
    /\ call.months = 12
    /\ call.result = Num(220)

\* C2: not covered, the cost is cash price * months when no insurance record
\* is supplied and the medicine has a numeric goodrx_price, and average cost
\* * months in every other case, an insurance record with a cheaper cash price
\* included.
C2_UncoveredCost ==
    (/\ CostDone
     /\ ~SaysYes(call.coverage_info)
     /\ HasNumber(call.medicine_info, "average_cost_per_month"))
    => call.result =
          IF call.insurance_info = NoneRec /\ HasNumber(call.medicine_info, "goodrx_price")
          THEN Num(call.medicine_info.goodrx_price.n * call.months)
          ELSE Num(call.medicine_info.average_cost_per_month.n * call.months)

\* Not covered, an insurance record, a cash price below the average price:
\* the average price is charged.
C2_Witness ==
    /\ CostDone
    /\ call.coverage_info = CovInfo(NoText, Num(10))
    /\ call.insurance_info = InsInfo(Num(100))
    /\ call.medicine_info = MedInfo(Num(40), Num(25))
    /\ call.months = 12
    /\ call.result = Num(480)

----------------------------------------------------------------------------
(* The pairing builder's claim, on build_pairings called on its own *)

PairsDone == call.fn = "build_pairings" /\ call.done

\* C4: build_pairings returns one pairing per (m, i), m the selected medicine
\* alone if given, else every medicine in file order, i the selected insurance
\* alone if given, else every insurance in file order, medicine-major.
C4_PairingOrder ==
    (PairsDone /\ call.result.ok) =>
        LET rows == call.result.rows
            meds == IF call.selected_medicine \in {NoneS, <<>>}
                    THEN [k \in 1..Len(medicines_df) |-> medicines_df[k].medicine_name]
                    ELSE <<call.selected_medicine>>
            inss == IF call.selected_insurance \in {NoneS, <<>>}
                    THEN [k \in 1..Len(insurance_df) |-> insurance_df[k].insurance_name]
                    ELSE <<call.selected_insurance>>
        IN /\ Len(rows) = Len(meds) * Len(inss)
           /\ \A a \in 1..Len(meds), b \in 1..Len(inss) :
                 /\ rows[(a - 1) * Len(inss) + b].medicine_name = meds[a]
                 /\ rows[(a - 1) * Len(inss) + b].insurance_name = inss[b]

\* Nothing selected: the four pairings of two medicines and two insurances.
C4_Witness ==
    /\ PairsDone
    /\ call.result.ok
    /\ call.selected_medicine = NoneS
    /\ call.selected_insurance = NoneS
    /\ Len(call.result.rows) = 4
    /\ call.result.rows[2].medicine_name = Metformin
    /\ call.result.rows[2].insurance_name = Aetna

----------------------------------------------------------------------------
(* The handler's claims *)

\* The request is the trial form answered a at index k.
TrialPost(a, k) ==
    /\ req.method = "POST"
    /\ req.trial_action = T_trial
    /\ req.trial_answer = a
    /\ req.trial_index = IntText(k)

IsCash(p) == "is_cash" \in DOMAIN p

\* 12 * monthly_cost = annual_cost, as fractions.
TwelveMonths(p) ==
    /\ p.annual_cost.t = p.monthly_cost.t
    /\ p.annual_cost.t = "num" =>
          12 * p.monthly_cost.n * p.annual_cost.d = p.annual_cost.n * p.monthly_cost.d

\* C3: every pairing the handler puts out, the cash row and the current
\* selection included, has monthly_cost = annual_cost / 12.
C3_MonthlyIsTwelfth ==
    /\ \A k \in 1..Len(resp.pairings) : TwelveMonths(resp.pairings[k])
    /\ resp.current # NoneRec => TwelveMonths(resp.current)

\* A result with the cash row and a row whose monthly cost is no whole number.
C3_Witness ==
    /\ \E k \in 1..Len(resp.pairings) : IsCash(resp.pairings[k])
    /\ \E k \in 1..Len(resp.pairings) :
          /\ ~IsCash(resp.pairings[k])
          /\ resp.pairings[k].annual_cost = Num(220)
          /\ resp.pairings[k].monthly_cost.d = 3

\* C5: a "No" at index k selects sequence[k], emits no further question, and
\* the results of that step are for that medicine only.
C5_NoSelects ==
    \A k \in 0..(Len(TRIAL_SEQUENCE) - 1), a \in {NoText, NoPaddedText} :
        (TrialPost(a, k) /\ resp.status = "ok") =>
            /\ resp.selected_medicine = TRIAL_SEQUENCE[k + 1]
            /\ resp.trial_question = NoneS
            /\ resp.trial_index = k
            /\ \A j \in 1..Len(resp.pairings) :
                  resp.pairings[j].medicine_name = TRIAL_SEQUENCE[k + 1]

\* "No" to Januvia, the fourth question, with the insurance field filled in:
\* the results are Januvia's.
C5_Witness ==
    /\ TrialPost(NoPaddedText, 3)
    /\ req.insurance = Cigna
    /\ resp.status = "ok"
    /\ resp.selected_medicine = Januvia
    /\ Len(resp.pairings) >= 1

\* C6: a "Yes" at index k with k + 1 < N moves the index to k + 1, emits
\* sequence[k + 1] and builds nothing: no pairing, no current selection.
C6_YesAdvances ==
    \A k \in 0..(Len(TRIAL_SEQUENCE) - 2) :
        TrialPost(YesText, k) =>
            /\ resp.status = "ok"
            /\ resp.trial_index = k + 1
            /\ resp.trial_question = TRIAL_SEQUENCE[k + 2]
            /\ resp.pairings = <<>>
            /\ resp.current = NoneRec

\* "Yes" to the third question, the form carrying a medicine and an insurance.
C6_Witness ==
    /\ TrialPost(YesText, 2)
    /\ req.medicine = Januvia
    /\ req.insurance = Cigna
    /\ resp.trial_question = Januvia
    /\ resp.trial_index = 3

\* C7: the "Yes" that makes the index N outputs all pairings, every medicine
\* with every insurance, whatever medicine and insurance fields the request
\* carries.
C7_AllYesShowsAll ==
    TrialPost(YesText, Len(TRIAL_SEQUENCE) - 1) =>
        /\ resp.status = "ok"
        /\ \A m \in 1..Len(medicines_df), i \in 1..Len(insurance_df) :
              \E k \in 1..Len(resp.pairings) :
                  /\ resp.pairings[k].medicine_name = medicines_df[m].medicine_name
                  /\ resp.pairings[k].insurance_name = insurance_df[i].insurance_name

\* C8: the trial index the handler ends a step with is in 0..N, and a
\* medicine selected by a "No" is the sequence's entry at the index read.
C8_IndexInRange ==
    /\ resp.trial_index \in 0..Len(TRIAL_SEQUENCE)
    /\ \A a \in {NoText, NoPaddedText} :
          (/\ req.method = "POST" /\ req.trial_action = T_trial
           /\ req.trial_answer = a
           /\ req.medicine = NoneS
           /\ resp.status = "ok"
           /\ resp.selected_medicine # NoneS)
          => /\ resp.trial_index \in 0..(Len(TRIAL_SEQUENCE) - 1)
             /\ resp.selected_medicine = TRIAL_SEQUENCE[resp.trial_index + 1]

\* The row of the cash channel, as the claim describes it.
CashRowAsClaimed(p, price) ==
    /\ IsCash(p)
    /\ p.insurance = NoneRec
    /\ p.coverage = NoneRec
    /\ p.annual_cost = Num(price.n * 12)
    /\ p.full_annual = Num(price.n * 12)

\* C10: when a medicine is selected, no insurance is selected and the medicine
\* has a numeric goodrx_price, the result has exactly one cash pairing, ahead
\* of all the insurance rows, without insurance and coverage, its annual_cost
\* and full_annual both cash price * 12; in every other request it has none.
C10_CashInjection ==
    (req.method = "POST" /\ resp.status = "ok" /\ resp.trial_question = NoneS) =>
        LET med_info == get_medicine_info(resp.selected_medicine)
            cash == {k \in 1..Len(resp.pairings) : IsCash(resp.pairings[k])}
        IN IF /\ resp.selected_medicine # NoneS
              /\ resp.selected_insurance = NoneS
              /\ HasNumber(med_info, "goodrx_price")
           THEN /\ cash = {1}
                /\ CashRowAsClaimed(resp.pairings[1], med_info.goodrx_price)
           ELSE cash = {}

----------------------------------------------------------------------------
(* The questionnaire's claim, on the threaded flow *)

\* C9: threaded from index 0, the index never decreases from one step to the
\* next, and every run of answers is over, by a "No" or at index N, after at
\* most N answers.
C9_FlowTerminates ==
    /\ flow.index >= flow.prev
    /\ flow.answers <= Len(TRIAL_SEQUENCE)
    /\ flow.answers = Len(TRIAL_SEQUENCE) => flow.ended

\* Seven times "Yes": the flow is over at index N.
C9_Witness ==
    /\ flow.answers = Len(TRIAL_SEQUENCE)
    /\ flow.index = Len(TRIAL_SEQUENCE)
    /\ flow.prev = Len(TRIAL_SEQUENCE) - 1
    /\ flow.ended
    /\ req.trial_answer = YesText

----------------------------------------------------------------------------
(* The handler's claims on the rows' fields and on the sort *)

\* The request is the compare form, and results were rendered.
FormPost == req.method = "POST" /\ req.trial_action = NoneS /\ resp.status = "ok"

\* C11: every pairing of a result list has unauth_annual equal to the
\* override table's value when (insurance_name, medicine_name) is a key of
\* the table and to its own full_annual otherwise; a (Cigna, Januvia) pairing
\* has 721 whatever its full_annual.
C11_UnauthOverride ==
    \A k \in 1..Len(resp.pairings) :
        LET p == resp.pairings[k]
        IN /\ "unauth_annual" \in DOMAIN p
           /\ p.unauth_annual =
                 IF p.insurance_name = Cigna /\ p.medicine_name = Januvia THEN Num(721)
                 ELSE IF p.insurance_name = Cigna /\ p.medicine_name = Empagliflozin
                      THEN Num(811)
                 ELSE p.full_annual

\* A result with the (Cigna, Januvia) row at 721 beside a full_annual of 300,
\* and a row outside the table.
C11_Witness ==
    /\ \E k \in 1..Len(resp.pairings) :
          /\ resp.pairings[k].insurance_name = Cigna
          /\ resp.pairings[k].medicine_name = Januvia
          /\ resp.pairings[k].full_annual = Num(300)
          /\ resp.pairings[k].unauth_annual = Num(721)
    /\ \E k \in 1..Len(resp.pairings) :
          /\ resp.pairings[k].insurance_name = Aetna
          /\ resp.pairings[k].unauth_annual = resp.pairings[k].full_annual

\* Where a row stands in the enumeration: the cash row first, then
\* medicine-major by the tables' order.
PlaceOf(df, col, name) ==
    IF \E k \in 1..Len(df) : df[k][col] = name
    THEN CHOOSE k \in 1..Len(df) : df[k][col] = name
    ELSE 0

EnumRank(p) ==
    IF IsCash(p) THEN 0
    ELSE 1 + PlaceOf(medicines_df, "medicine_name", p.medicine_name)
               * (Len(insurance_df) + 1)
           + PlaceOf(insurance_df, "insurance_name", p.insurance_name)

AnnualBelow(p, q) == p.annual_cost.n * q.annual_cost.d < q.annual_cost.n * p.annual_cost.d

\* rows[i] and rows[j], i before j, stand the other way round in other when
\* their annual costs differ and the same way round when they are equal.
Mirrored(rows, other, i, j) ==
    \E a, b \in 1..Len(other) :
        /\ other[a] = rows[i]
        /\ other[b] = rows[j]
        /\ IF rows[i].annual_cost = rows[j].annual_cost
           THEN a < b /\ EnumRank(rows[i]) < EnumRank(rows[j])
           ELSE b < a /\ AnnualBelow(rows[i], rows[j])

\* C12: the same list sorted by annual cost ascending and descending has
\* every two rows with different keys in reversed order and every two rows
\* with equal keys in their enumeration order both times; no sort_by means
\* annual and no order means ascending.
C12_SortReversal ==
    (FormPost /\ req.sort_by = NoneS /\ req.order = NoneS) =>
        LET asc == resp.pairings
            desc == Index([req EXCEPT !.order = T_desc]).pairings
            named == Index([req EXCEPT !.sort_by = T_annual, !.order = T_asc]).pairings
        IN /\ named = asc
           /\ Len(desc) = Len(asc)
           /\ \A i, j \in 1..Len(asc) : i < j => Mirrored(asc, desc, i, j)

\* A default-sorted list of at least three rows, two of them with the same
\* annual cost and two with different ones.
C12_Witness ==
    /\ FormPost /\ req.sort_by = NoneS /\ req.order = NoneS
    /\ Len(resp.pairings) >= 3
    /\ \E i, j \in 1..Len(resp.pairings) :
          i < j /\ resp.pairings[i].annual_cost = resp.pairings[j].annual_cost
    /\ \E i, j \in 1..Len(resp.pairings) :
          i < j /\ AnnualBelow(resp.pairings[i], resp.pairings[j])

----------------------------------------------------------------------------
(* Missing records and malformed numbers *)

\* The compare form names a medicine or an insurance the tables do not have.
FormNamesMissing ==
    /\ req.method = "POST" /\ req.trial_action = NoneS
    /\ \/ Truthy(req.medicine) /\ get_medicine_info(req.medicine) = NoneRec
       \/ Truthy(req.insurance) /\ get_insurance_info(req.insurance) = NoneRec

\* A "No" in the trial form selects a medicine the tables do not have.
TrialNamesMissing ==
    \E k \in 0..(Len(TRIAL_SEQUENCE) - 1) :
        /\ TrialPost(NoText, k)
        /\ get_medicine_info(TRIAL_SEQUENCE[k + 1]) = NoneRec

\* C13: when a selected medicine or insurance name, from the form or from the
\* trial sequence, has no record in the data store, the lookups return absent
\* and the enumeration of the pairings still completes without a fatal
\* error, the medicine or insurance of the affected rows left absent.
C13_MissingEntity ==
    (FormNamesMissing \/ TrialNamesMissing) =>
        /\ resp.status = "ok"
        /\ \A k \in 1..Len(resp.pairings) :
              /\ resp.pairings[k].medicine = get_medicine_info(resp.pairings[k].medicine_name)
              /\ resp.pairings[k].insurance = get_insurance_info(resp.pairings[k].insurance_name)

\* A numeric field at its point of use: 0 unless it is a number.
Degraded(info, key) == IF HasNumber(info, key) THEN info[key].n ELSE 0

\* C14: calculate_total_cost takes a missing, not-a-number or non-numeric
\* average_cost_per_month, copay_amount or deductible as 0 at its point of
\* use: the call does not fail and the result is a number >= 0.
C14_DegradesToZero ==
    (CostDone /\ call.medicine_info # NoneRec) =>
        /\ call.result.t = "num"
        /\ call.result.n >= 0
        /\ call.result =
              IF SaysYes(call.coverage_info)
              THEN Num(Degraded(call.coverage_info, "copay_amount") * call.months
                       + Degraded(call.insurance_info, "deductible"))
              ELSE IF call.insurance_info = NoneRec
                      /\ HasNumber(call.medicine_info, "goodrx_price")
              THEN Num(call.medicine_info.goodrx_price.n * call.months)
              ELSE Num(Degraded(call.medicine_info, "average_cost_per_month") * call.months)

----------------------------------------------------------------------------
(* Savings, statelessness, tiers and baselines *)

\* x = a - b, as fractions.
IsDifference(x, a, b) ==
    /\ x.t = "num" /\ a.t = "num" /\ b.t = "num"
    /\ x.n * a.d * b.d = (a.n * b.d - b.n * a.d) * x.d

\* C15: for every pairing of a result list, the cash row included, whenever
\* full_annual and annual_cost are both defined, annual_savings is defined
\* and equals full_annual - annual_cost.
C15_AnnualSavings ==
    \A k \in 1..Len(resp.pairings) :
        LET p == resp.pairings[k]
        IN (p.full_annual.t = "num" /\ p.annual_cost.t = "num")
           => IsDifference(p.annual_savings, p.full_annual, p.annual_cost)

\* C15, amended: every pairing built by add_pair whose full_annual and
\* annual_cost are both defined has annual_savings = full_annual -
\* annual_cost; the cash row has both defined and annual_savings None.
C15_AnnualSavingsAmended ==
    \A k \in 1..Len(resp.pairings) :
        LET p == resp.pairings[k]
        IN IF IsCash(p)
           THEN /\ p.full_annual.t = "num" /\ p.annual_cost.t = "num"
                /\ p.annual_savings = NoneV
           ELSE (p.full_annual.t = "num" /\ p.annual_cost.t = "num")
                => IsDifference(p.annual_savings, p.full_annual, p.annual_cost)

\* The cash row without savings beside an insurance row that costs 60 more
\* than its baseline.
C15_Witness ==
    /\ \E k \in 1..Len(resp.pairings) :
          IsCash(resp.pairings[k]) /\ resp.pairings[k].annual_savings = NoneV
    /\ \E k \in 1..Len(resp.pairings) :
          /\ ~IsCash(resp.pairings[k])
          /\ resp.pairings[k].full_annual = Num(300)
          /\ resp.pairings[k].annual_cost = Num(360)
          /\ resp.pairings[k].annual_savings = Num(-60)

TierNumber(cov) ==
    IF cov = NoneRec \/ "tier_level" \notin DOMAIN cov THEN 0
    ELSE IF cov.tier_level = Tier1Text THEN 1
    ELSE IF cov.tier_level = Tier2Text THEN 2
    ELSE 0

\* C17: with 'tried' marked for the selected medicine M, each pairing's
\* is_higher_tier is true iff M's tier under the pairing's insurance and the
\* pairing's own tier both parse and the pairing's is strictly greater, an
\* absent or unparsable tier giving false without an error; without 'tried'
\* no pairing has is_higher_tier.
C17_TierFlag ==
    (req.method = "POST" /\ resp.status = "ok") =>
        \A k \in 1..Len(resp.pairings) :
            LET p == resp.pairings[k]
                own == TierNumber(p.coverage)
                sel == TierNumber(get_coverage_info(p.insurance_name,
                                                    resp.selected_medicine))
            IN /\ (req.tried = T_on /\ resp.selected_medicine # NoneS) =>
                     /\ "is_higher_tier" \in DOMAIN p
                     /\ p.is_higher_tier <=> (own > 0 /\ sel > 0 /\ own > sel)
               /\ req.tried # T_on => "is_higher_tier" \notin DOMAIN p

\* 'tried' marked for Januvia: a Metformin row of a higher tier is flagged, a
\* row whose tier does not parse is not.
C17_Witness ==
    /\ req.tried = T_on
    /\ resp.selected_medicine = Januvia
    /\ \E k \in 1..Len(resp.pairings) :
          /\ resp.pairings[k].medicine_name = Metformin
          /\ "is_higher_tier" \in DOMAIN resp.pairings[k]
          /\ resp.pairings[k].is_higher_tier
    /\ \E k \in 1..Len(resp.pairings) :
          /\ resp.pairings[k].coverage = NoneRec
          /\ "is_higher_tier" \in DOMAIN resp.pairings[k]
          /\ ~resp.pairings[k].is_higher_tier

\* The rows without annual_savings stand after all the others.
MissingSavingsLast(rows) ==
    \A i, j \in 1..Len(rows) :
        (rows[i].annual_savings = NoneV /\ rows[j].annual_savings # NoneV) => j < i

\* The rows without annual_savings stand before all the others.
MissingSavingsFirst(rows) ==
    \A i, j \in 1..Len(rows) :
        (rows[i].annual_savings = NoneV /\ rows[j].annual_savings # NoneV) => i < j

C19_MonthlySavings ==
    (PairsDone /\ call.result.ok) =>
        \A k \in 1..Len(call.result.rows) :
            LET p == call.result.rows[k]
            IN IF HasNumber(p.coverage, "copay_amount")
               THEN IsDifference(p.monthly_savings, p.full_monthly,
                                 p.coverage.copay_amount)
               ELSE p.monthly_savings = NoneV

\* C20: for every pairing row, full_monthly is the medicine's cash price
\* exactly when the row's insurance is absent and a cash price is configured,
\* and average_cost_per_month otherwise, rows with an insurance record
\* included; full_annual = 12 x full_monthly.
C20_Baseline ==
    \A k \in 1..Len(resp.pairings) :
        LET p == resp.pairings[k]
        IN /\ p.full_monthly =
                 IF p.insurance = NoneRec /\ HasNumber(p.medicine, "goodrx_price")
                 THEN p.medicine.goodrx_price
                 ELSE p.medicine.average_cost_per_month
           /\ p.full_annual = Num(12 * p.full_monthly.n)

----------------------------------------------------------------------------
(* Both fields selected, and the tier flag within one medicine *)

\* The request ended the questionnaire with a last "Yes": the step that
\* shows all pairings.
ShowAllStep ==
    /\ req.method = "POST" /\ req.trial_action = T_trial
    /\ req.trial_answer = YesText
    /\ resp.trial_index >= Len(TRIAL_SEQUENCE)

\* The request selects a medicine and an insurance.
BothChosen ==
    /\ req.method = "POST" /\ resp.status = "ok"
    /\ resp.selected_medicine # NoneS
    /\ resp.selected_insurance # NoneS

\* _key(p) < _key(q) for the key the request chose, on rows that have all
\* their keys.
ChosenKeyBelow(p, q) ==
    IF req.sort_by = T_medicine
    THEN StrLess(Lower(p.medicine_name), Lower(q.medicine_name))
    ELSE IF req.sort_by = T_insurance
    THEN StrLess(Lower(p.insurance_name), Lower(q.insurance_name))
    ELSE IF req.sort_by = T_monthly
    THEN p.monthly_cost.n * q.monthly_cost.d < q.monthly_cost.n * p.monthly_cost.d
    ELSE IF req.sort_by = T_savings
    THEN p.annual_savings.n * q.annual_savings.d < q.annual_savings.n * p.annual_savings.d
    ELSE AnnualBelow(p, q)

\* No row stands before one it should follow.
InChosenOrder(rows) ==
    \A i, j \in 1..Len(rows) :
        i < j => IF req.order = T_desc
                 THEN ~ChosenKeyBelow(rows[i], rows[j])
                 ELSE ~ChosenKeyBelow(rows[j], rows[i])

\* The list is the selected medicine with every insurance but the selected
\* one, in the chosen order, and the summary is there iff both have records.
OthersAndSummary ==
    LET M == resp.selected_medicine
        I == resp.selected_insurance
        rows == resp.pairings
        others == {k \in 1..Len(insurance_df) : insurance_df[k].insurance_name # I}
    IN /\ Len(rows) = Cardinality(others)
       /\ \A k \in others : \E r \in 1..Len(rows) :
             /\ rows[r].insurance_name = insurance_df[k].insurance_name
             /\ rows[r].insurance = insurance_df[k]
       /\ \A r \in 1..Len(rows) :
             /\ rows[r].medicine_name = M
             /\ rows[r].insurance_name # I
             /\ ~IsCash(rows[r])
       /\ InChosenOrder(rows)
       /\ resp.current # NoneRec <=>
             (get_medicine_info(M) # NoneRec /\ get_insurance_info(I) # NoneRec)
       /\ resp.current # NoneRec =>
             /\ resp.current.medicine = get_medicine_info(M)
             /\ resp.current.insurance = get_insurance_info(I)

C22_NeverHigherWithinMedicine ==
    (/\ req.method = "POST" /\ resp.status = "ok"
     /\ resp.selected_medicine # NoneS
     /\ ~ShowAllStep)
    => \A k \in 1..Len(resp.pairings) :
          LET p == resp.pairings[k]
          IN /\ p.medicine_name = resp.selected_medicine
             /\ req.tried = T_on => "is_higher_tier" \in DOMAIN p
             /\ "is_higher_tier" \in DOMAIN p => ~p.is_higher_tier

\* 'tried' marked for Januvia, which is Tier 1 under one insurance and Tier 2
\* under another: neither row is flagged.
C22_Witness ==
    /\ req.method = "POST" /\ resp.status = "ok" /\ ~ShowAllStep
    /\ req.tried = T_on
    /\ resp.selected_medicine = Januvia
    /\ \E k \in 1..Len(resp.pairings) :
          /\ resp.pairings[k].coverage # NoneRec
          /\ resp.pairings[k].coverage.tier_level = Tier1Text
          /\ "is_higher_tier" \in DOMAIN resp.pairings[k]
          /\ ~resp.pairings[k].is_higher_tier
    /\ \E k \in 1..Len(resp.pairings) :
          /\ resp.pairings[k].coverage # NoneRec
          /\ resp.pairings[k].coverage.tier_level = Tier2Text
          /\ "is_higher_tier" \in DOMAIN resp.pairings[k]
          /\ ~resp.pairings[k].is_higher_tier

====
